---------------------------- MODULE Spec2Model ----------------------------
(* A model of build_app.py: the hierarchy store kept in the Streamlit      *)
(* session (a dict id -> node with "parents"/"children" lists), the id     *)
(* generator, the relational and the outline parser, the exporter and the  *)
(* handlers of the page (edit, delete, navigation, add and batch forms).   *)
(*                                                                         *)
(* A Python str is a sequence of one-character strings, so that the        *)
(* regular expression of generate_next_id, str()/int(), strip() and        *)
(* split() are computed and not assumed. A Python dict is a function       *)
(* together with the sequence of its keys in insertion order.              *)
EXTENDS Integers, Sequences, FiniteSets, TLC

(***************************************************************************)
(* Strings                                                                 *)
(***************************************************************************)

Letters == {"a", "b", "z", "N", "r"}

DigitChars == <<"0", "1", "2", "3", "4", "5", "6", "7", "8", "9">>

Digits == {DigitChars[i] : i \in 1..10}

IsLetter(c) == c \in Letters

IsDigit(c) == c \in Digits

\* int() of one decimal digit
DigitVal(c) == (CHOOSE i \in 1..10 : DigitChars[i] = c) - 1

\* str(n) for a non-negative int n
RECURSIVE IntToStr(_)
IntToStr(n) ==
    IF n < 10 THEN <<DigitChars[n + 1]>>
    ELSE IntToStr(n \div 10) \o <<DigitChars[(n % 10) + 1]>>

\* int(s) for a string of decimal digits (leading zeros allowed)
RECURSIVE StrToInt(_)
StrToInt(s) ==
    IF s = <<>> THEN 0
    ELSE 10 * StrToInt(SubSeq(s, 1, Len(s) - 1)) + DigitVal(s[Len(s)])

\* the end of the longest run of characters of one class starting at i
\* (i - 1 when s[i] is not of the class)
RECURSIVE LetterRunEnd(_, _)
LetterRunEnd(s, i) ==
    IF i <= Len(s) /\ IsLetter(s[i]) THEN LetterRunEnd(s, i + 1) ELSE i - 1

RECURSIVE DigitRunEnd(_, _)
DigitRunEnd(s, i) ==
    IF i <= Len(s) /\ IsDigit(s[i]) THEN DigitRunEnd(s, i + 1) ELSE i - 1

\* ([a-zA-Z]+)-(\d+) matches s from position i: both quantifiers are greedy,
\* and a shorter run of letters is followed by a letter, never by the "-"
MatchAt(s, i) ==
    LET j == LetterRunEnd(s, i) IN
        /\ j >= i
        /\ j + 2 <= Len(s)
        /\ s[j + 1] = "-"
        /\ IsDigit(s[j + 2])

\* re.search(r"([a-zA-Z]+)-(\d+)", eid): the leftmost match, or no match
HasMatch(s) == \E i \in 1..Len(s) : MatchAt(s, i)

MatchStart(s) == CHOOSE i \in 1..Len(s) : MatchAt(s, i) /\ \A k \in 1..(i - 1) : ~MatchAt(s, k)

\* match.groups(): the prefix and int(number)
MatchPrefix(s) == SubSeq(s, MatchStart(s), LetterRunEnd(s, MatchStart(s)))

MatchNumber(s) ==
    LET j == LetterRunEnd(s, MatchStart(s)) IN
        StrToInt(SubSeq(s, j + 2, DigitRunEnd(s, j + 2)))

(***************************************************************************)
(* generate_next_id                                                        *)
(***************************************************************************)

\* the list numeric_ids, in the iteration order of the dict's keys
RECURSIVE NumericIds(_)
NumericIds(ks) ==
    IF ks = <<>> THEN <<>>
    ELSE LET rest == NumericIds(SubSeq(ks, 1, Len(ks) - 1))
             eid == ks[Len(ks)]
         IN IF HasMatch(eid)
            THEN Append(rest, [prefix |-> MatchPrefix(eid), number |-> MatchNumber(eid)])
            ELSE rest

MaxByNumber_First(l) == l[1]

\* max(numeric_ids, key=lambda x: x[1]): the first element that has the
\* largest number
MaxByNumber(l) ==
    l[CHOOSE i \in 1..Len(l) :
        /\ \A k \in 1..Len(l) : l[k].number <= l[i].number
        /\ \A k \in 1..(i - 1) : l[k].number < l[i].number]

FallbackId == <<"z", "-", "1">>

GenerateNextId_NoIncrement(ks) ==
    LET numeric_ids == NumericIds(ks) IN
        IF numeric_ids # <<>>
        THEN LET m == MaxByNumber(numeric_ids)
             IN m.prefix \o <<"-">> \o IntToStr(m.number)
        ELSE FallbackId

\* generate_next_id(hierarchy), ks being the keys of hierarchy in order
GenerateNextId(ks) ==
    LET numeric_ids == NumericIds(ks) IN
        IF numeric_ids # <<>>
        THEN LET m == MaxByNumber(numeric_ids)
             IN m.prefix \o <<"-">> \o IntToStr(m.number + 1)
        ELSE FallbackId

(***************************************************************************)
(* Python values                                                           *)
(***************************************************************************)

\* None, as a value of the kind ids have (no id contains this character)
None == <<"None">>

\* the str ""
EmptyStr == <<>>

\* bool(x) of an id or None: None and "" are falsy
Truthy(x) == x # None /\ x # EmptyStr

SeqToSet(s) == {s[i] : i \in 1..Len(s)}

\* a dict: its keys in insertion order, and the value at each key
EmptyDict == [keys |-> <<>>, at |-> [k \in {} |-> {}]]

\* k in d
Has(d, k) == k \in SeqToSet(d.keys)

\* d[k] = v: a new key goes last, a present key keeps its place
DictSet(d, k, v) ==
    [keys |-> IF Has(d, k) THEN d.keys ELSE Append(d.keys, k),
     at   |-> [x \in SeqToSet(d.keys) \cup {k} |-> IF x = k THEN v ELSE d.at[x]]]

RECURSIVE SeqWithout(_, _)
SeqWithout(s, k) ==
    IF s = <<>> THEN <<>>
    ELSE IF s[1] = k THEN SeqWithout(Tail(s), k)
    ELSE <<s[1]>> \o SeqWithout(Tail(s), k)

\* del d[k], k being a key of d
DictDel(d, k) ==
    [keys |-> SeqWithout(d.keys, k),
     at   |-> [x \in SeqToSet(d.keys) \ {k} |-> d.at[x]]]

\* list.remove(x): removes the first occurrence of x
RECURSIVE ListRemove(_, _)
ListRemove(l, x) ==
    IF l = <<>> THEN <<>>
    ELSE IF l[1] = x THEN Tail(l)
    ELSE <<l[1]>> \o ListRemove(Tail(l), x)

(***************************************************************************)
(* The node types                                                          *)
(*   "bab_raeesi" : the label of the root of a new project and of          *)
(*                  infer_type (ends in the letter yeh)                    *)
(*   "bab_raees"  : the label type_map gives column 0 (no final yeh)       *)
(*   "fasl", "mawdoo", "madkhal" : section, topic, entry                   *)
(*   "unknown"    : the label of a column beyond type_map                  *)
(***************************************************************************)

TypeBab == "bab_raeesi"

TypeBabOutline == "bab_raees"

TypeFasl == "fasl"

TypeMawdoo == "mawdoo"

TypeMadkhal == "madkhal"

TypeUnknown == "unknown"

\* infer_type(context, current_type)
infer_type(context, current_type) ==
    IF context = "child"
    THEN CASE current_type = TypeBab -> TypeFasl
           [] current_type = TypeFasl -> TypeMawdoo
           [] current_type = TypeMawdoo -> TypeMadkhal
           [] OTHER -> TypeMadkhal
    ELSE IF context = "parent"
    THEN CASE current_type = TypeMadkhal -> TypeMawdoo
           [] current_type = TypeMawdoo -> TypeFasl
           [] current_type = TypeFasl -> TypeBab
           [] OTHER -> TypeBab
    ELSE IF context = "sibling" THEN current_type
    ELSE TypeMadkhal

(***************************************************************************)
(* The store operations                                                    *)
(***************************************************************************)

Node(name, type, definition, parents, children) ==
    [name |-> name, type |-> type, definition |-> definition,
     parents |-> parents, children |-> children]

\* hierarchy[k]["children"].append(c)
AppendChild(h, k, c) ==
    [h EXCEPT !.at[k].children = Append(@, c)]

add_element_Overwrite(h, new_id, name, type_, definition, parent_id) ==
    LET inserted ==
            DictSet(h, new_id,
                    Node(name, type_, definition,
                         IF Truthy(parent_id) THEN <<parent_id>> ELSE <<>>, <<>>))
    IN IF Truthy(parent_id) /\ Has(inserted, parent_id)
       THEN AppendChild(inserted, parent_id, new_id)
       ELSE inserted

\* add_element(hierarchy, new_id, name, type_, definition, parent_id): the
\* dict after the call
add_element(h, new_id, name, type_, definition, parent_id) ==
    IF Has(h, new_id) THEN h
    ELSE LET inserted ==
                 DictSet(h, new_id,
                         Node(name, type_, definition,
                              IF Truthy(parent_id) THEN <<parent_id>> ELSE <<>>, <<>>))
         IN IF Truthy(parent_id) /\ Has(inserted, parent_id)
            THEN AppendChild(inserted, parent_id, new_id)
            ELSE inserted

\* get_siblings raises KeyError at hierarchy[parent_id] for an absent parent
get_siblings_raises(h, element_id) ==
    \E i \in 1..Len(h.at[element_id].parents) : ~Has(h, h.at[element_id].parents[i])

\* the set siblings after the loop over the first n parents
RECURSIVE SiblingsUpTo(_, _, _)
SiblingsUpTo(h, parents, n) ==
    IF n = 0 THEN {}
    ELSE SiblingsUpTo(h, parents, n - 1) \cup SeqToSet(h.at[parents[n]].children)

get_siblings_set_KeepSelf(h, element_id) ==
    SiblingsUpTo(h, h.at[element_id].parents, Len(h.at[element_id].parents))

\* the set siblings of get_siblings at its return (every parent present)
get_siblings_set(h, element_id) ==
    SiblingsUpTo(h, h.at[element_id].parents, Len(h.at[element_id].parents))
        \ {element_id}

\* list(a set): the elements once each, in an order the language leaves open
ListsOf(S) ==
    {l \in [1..Cardinality(S) -> S] : \A i, j \in 1..Cardinality(S) : l[i] = l[j] => i = j}

\* the lists get_siblings(hierarchy, element_id) can return
get_siblings(h, element_id) == ListsOf(get_siblings_set(h, element_id))

(***************************************************************************)
(* Spreadsheet cells and tables                                            *)
(*                                                                         *)
(* A cell of the id column or of a parent column is a missing value (NaN), *)
(* a str, an int or a float with no fraction; s holds the str, or the      *)
(* decimal digits of the number. The cells of the name, type and           *)
(* definition columns are stored as they are read and stay opaque.         *)
(***************************************************************************)

NaNCell == [kind |-> "nan", s |-> <<>>]

StrCell(s) == [kind |-> "str", s |-> s]

IntCell(n) == [kind |-> "int", s |-> IntToStr(n)]

FloatCell(n) == [kind |-> "float", s |-> IntToStr(n)]

\* a missing value of an opaque column
Missing == <<"NaN">>

\* pd.notna(cell)
notna(cell) == cell.kind # "nan"

\* str(cell)
PyStr(cell) ==
    CASE cell.kind = "str" -> cell.s
      [] cell.kind = "int" -> cell.s
      [] cell.kind = "float" -> cell.s \o <<".", "0">>
      [] OTHER -> <<"n", "a", "n">>

\* a table: rows of [id, name, type, definition, parents], parents being the
\* cells of the parent columns in column order; has_definition tells
\* whether the table has the definition column
Table(has_definition, rows) == [has_definition |-> has_definition, rows |-> rows]

NoTable == Table(FALSE, <<>>)

(***************************************************************************)
(* build_hierarchy                                                         *)
(***************************************************************************)

RECURSIVE ParentIds_UntilMissing(_)
ParentIds_UntilMissing(cells) ==
    IF cells = <<>> \/ ~notna(cells[1]) THEN <<>>
    ELSE <<PyStr(cells[1])>> \o ParentIds_UntilMissing(Tail(cells))

\* [str(row[col]) for col in parent columns if pd.notna(row[col])]
RECURSIVE ParentIds(_)
ParentIds(cells) ==
    IF cells = <<>> THEN <<>>
    ELSE IF notna(cells[1]) THEN <<PyStr(cells[1])>> \o ParentIds(Tail(cells))
    ELSE ParentIds(Tail(cells))

\* the first loop of build_hierarchy over the first n rows
RECURSIVE BuildRows(_, _)
BuildRows(df, n) ==
    IF n = 0 THEN EmptyDict
    ELSE LET row == df.rows[n] IN
         DictSet(BuildRows(df, n - 1), PyStr(row.id),
                 Node(row.name, row.type,
                      IF df.has_definition THEN row.definition ELSE EmptyStr,
                      ParentIds(row.parents), <<>>))

\* the inner loop of the second pass: the first n parents of eid
RECURSIVE LinkParents(_, _, _)
LinkParents(h, eid, n) ==
    IF n = 0 THEN h
    ELSE LET done == LinkParents(h, eid, n - 1)
             parent == h.at[eid].parents[n]
         IN IF Has(done, parent) THEN AppendChild(done, parent, eid) ELSE done

\* the second pass ("assign children") over the first n keys
RECURSIVE LinkChildren(_, _)
LinkChildren(h, n) ==
    IF n = 0 THEN h
    ELSE LET done == LinkChildren(h, n - 1)
             eid == h.keys[n]
         IN LinkParents(done, eid, Len(h.at[eid].parents))

\* build_hierarchy(df)
build_hierarchy(df) ==
    LET rows_done == BuildRows(df, Len(df.rows))
    IN LinkChildren(rows_done, Len(rows_done.keys))

(***************************************************************************)
(* export_to_csv                                                           *)
(***************************************************************************)

Max(S) == CHOOSE x \in S : \A y \in S : y <= x

\* max_parents, read from the hierarchy of the session
MaxParents(session_loaded, session_hierarchy) ==
    IF session_loaded /\ session_hierarchy.keys # <<>>
    THEN Max({Len(session_hierarchy.at[k].parents) : k \in SeqToSet(session_hierarchy.keys)})
    ELSE 0

ExportParents_Reversed(parents, max_parents) ==
    [i \in 1..max_parents |->
        IF i <= Len(parents) THEN StrCell(parents[Len(parents) + 1 - i]) ELSE NaNCell]

\* the parent cells of one row: the parents at the columns below
\* max_parents, None in the columns left
ExportParents(parents, max_parents) ==
    [i \in 1..max_parents |->
        IF i <= Len(parents) THEN StrCell(parents[i]) ELSE NaNCell]

\* export_to_csv(hierarchy), read as a table
export_to_csv(h, session_loaded, session_hierarchy) ==
    LET max_parents == MaxParents(session_loaded, session_hierarchy) IN
    Table(TRUE,
          [n \in 1..Len(h.keys) |->
              LET eid == h.keys[n] IN
              [id |-> StrCell(eid),
               name |-> h.at[eid].name,
               type |-> h.at[eid].type,
               definition |-> h.at[eid].definition,
               parents |-> ExportParents(h.at[eid].parents, max_parents)]])

(***************************************************************************)
(* build_hierarchy_from_outline                                            *)
(*                                                                         *)
(* An outline table is the sequence of its rows, a row the sequence of its *)
(* cells; col_idx counts from 0 as in the code, so row[col_idx] of the     *)
(* code is row[col_idx + 1] here.                                          *)
(***************************************************************************)

\* the characters str.strip() removes
Whitespace == {" "}

RECURSIVE LStrip(_)
LStrip(s) == IF s # <<>> /\ s[1] \in Whitespace THEN LStrip(Tail(s)) ELSE s

RECURSIVE RStrip(_)
RStrip(s) ==
    IF s # <<>> /\ s[Len(s)] \in Whitespace THEN RStrip(SubSeq(s, 1, Len(s) - 1)) ELSE s

\* s.strip()
Strip(s) == RStrip(LStrip(s))

\* type_map: the label of column 0, 1, 2, 3
type_map == <<TypeBabOutline, TypeFasl, TypeMawdoo, TypeMadkhal>>

\* type_map.get(col_idx, unknown)
TypeOfColumn(col_idx) ==
    IF col_idx + 1 \in DOMAIN type_map THEN type_map[col_idx + 1] ELSE TypeUnknown

\* pd.notna(cell) and isinstance(cell, str) and len(cell.strip()) > 0
IsTextCell(cell) == notna(cell) /\ cell.kind = "str" /\ Len(Strip(cell.s)) > 0

\* the definition: the next cell of the row, stripped, when it is a str
OutlineDefinition(row, col_idx) ==
    IF col_idx + 1 < Len(row) /\ row[col_idx + 2].kind = "str"
    THEN Strip(row[col_idx + 2].s)
    ELSE EmptyStr

\* for i in reversed(range(col_idx)): the scan from column i down to 0
RECURSIVE ScanStack(_, _)
ScanStack(node_stack, i) ==
    IF i < 0 THEN <<>>
    ELSE IF i \in DOMAIN node_stack THEN <<node_stack[i]>>
    ELSE ScanStack(node_stack, i - 1)

OutlineParents_PreviousColumn(node_stack, col_idx) ==
    IF col_idx - 1 \in DOMAIN node_stack THEN <<node_stack[col_idx - 1]>> ELSE <<>>

\* parents of the node emitted at column col_idx
OutlineParents(node_stack, col_idx) == ScanStack(node_stack, col_idx - 1)

OutlineStart_CountFromZero ==
    [hierarchy |-> EmptyDict, id_counter |-> 0, node_stack |-> [i \in {} |-> None]]

\* hierarchy, id_counter and node_stack before the first row
OutlineStart ==
    [hierarchy |-> EmptyDict, id_counter |-> 1, node_stack |-> [i \in {} |-> None]]

\* f"N{id_counter}"
OutlineId(id_counter) == <<"N">> \o IntToStr(id_counter)

\* the body of the inner loop, for the cell at column col_idx of the row
OutlineCell(st, row, col_idx) ==
    IF IsTextCell(row[col_idx + 1])
    THEN LET node_id == OutlineId(st.id_counter) IN
         [hierarchy  |-> DictSet(st.hierarchy, node_id,
                                 Node(Strip(row[col_idx + 1].s),
                                      TypeOfColumn(col_idx),
                                      OutlineDefinition(row, col_idx),
                                      OutlineParents(st.node_stack, col_idx),
                                      <<>>)),
          id_counter |-> st.id_counter + 1,
          node_stack |-> [i \in DOMAIN st.node_stack \cup {col_idx} |->
                             IF i = col_idx THEN node_id ELSE st.node_stack[i]]]
    ELSE st

\* the inner loop over the first n cells of a row
RECURSIVE OutlineRow(_, _, _)
OutlineRow(st, row, n) ==
    IF n = 0 THEN st ELSE OutlineCell(OutlineRow(st, row, n - 1), row, n - 1)

\* the outer loop over the first n rows
RECURSIVE OutlineRows(_, _)
OutlineRows(df, n) ==
    IF n = 0 THEN OutlineStart
    ELSE OutlineRow(OutlineRows(df, n - 1), df[n], Len(df[n]))

\* build_hierarchy_from_outline(df); its children pass is that of
\* build_hierarchy
build_hierarchy_from_outline(df) ==
    LET emitted == OutlineRows(df, Len(df)).hierarchy
    IN LinkChildren(emitted, Len(emitted.keys))

(***************************************************************************)
(* The session                                                             *)
(***************************************************************************)

VARIABLES
    hierarchy,    \* st.session_state["hierarchy"]
    loaded,       \* "hierarchy" in st.session_state
    current_id,   \* st.session_state["current_id"]
    fault,        \* the exception the last handler raised, or "none"
    last,         \* the last handler run and its arguments
    prev,         \* the hierarchy before the last handler ran
    table,        \* the uploaded table
    export_df     \* export_df of the last page run, NoTable when it was not reached

vars == <<hierarchy, loaded, current_id, fault, last, prev, table, export_df>>

Op(op, id, new_id, parent_id, name, definition) ==
    [op |-> op, id |-> id, new_id |-> new_id, parent_id |-> parent_id,
     name |-> name, definition |-> definition]

\* the largest number of an id the add forms are run for: deleting and
\* adding again counts the ids up without end
MaxIdNumber == 4

\* the add forms are run while the id they generate and the size of the
\* store are within the bound
WithinBound(h) ==
    /\ MatchNumber(GenerateNextId(h.keys)) <= MaxIdNumber
    /\ Len(h.keys) < MaxIdNumber

\* what the user types into the forms
FormNames == {<<"n", "2">>}

FormDefinitions == {<<"d", "2">>}

Init ==
    /\ hierarchy = EmptyDict
    /\ loaded = FALSE
    /\ current_id = None
    /\ fault = "none"
    /\ last = Op("none", None, None, None, EmptyStr, EmptyStr)
    /\ prev = EmptyDict
    /\ table = NoTable
    /\ export_df = NoTable

\* the page is drawn as far as current = hierarchy[current_id]
PageRuns == loaded /\ Has(hierarchy, current_id)

\* the page of a session (h, cur) is drawn to its end: neither the parents
\* section nor get_siblings raises KeyError
DrawnToEnd(h, cur) ==
    /\ Has(h, cur)
    /\ \A i \in 1..Len(h.at[cur].parents) : Has(h, h.at[cur].parents[i])

\* export_df = export_to_csv(hierarchy) of the run that follows a handler:
\* the last statement of the page, reached when nothing raised before it
PageExport(h, cur) ==
    IF DrawnToEnd(h, cur) THEN export_to_csv(h, TRUE, h) ELSE NoTable

RootId == <<"b", "r", "-", "1">>

\* the new project form, submitted
NewProject(root_name) ==
    /\ ~loaded
    /\ hierarchy' = DictSet(EmptyDict, RootId, Node(root_name, TypeBab, EmptyStr, <<>>, <<>>))
    /\ loaded' = TRUE
    /\ current_id' = RootId
    /\ fault' = "none"
    /\ last' = Op("new_project", None, RootId, None, root_name, EmptyStr)
    /\ prev' = hierarchy
    /\ UNCHANGED table
    /\ export_df' = PageExport(hierarchy', current_id')

\* next((eid for eid, d in hierarchy.items() if not d["parents"]), None)
FirstRoot(h) ==
    IF \E i \in 1..Len(h.keys) : h.at[h.keys[i]].parents = <<>>
    THEN h.keys[CHOOSE i \in 1..Len(h.keys) :
                   /\ h.at[h.keys[i]].parents = <<>>
                   /\ \A k \in 1..(i - 1) : h.at[h.keys[k]].parents # <<>>]
    ELSE None

\* the upload of a table that has the columns of the relational parser
ImportTable(df) ==
    /\ ~loaded
    /\ hierarchy' = build_hierarchy(df)
    /\ loaded' = TRUE
    /\ current_id' = FirstRoot(build_hierarchy(df))
    /\ fault' = "none"
    /\ last' = Op("import", None, None, None, EmptyStr, EmptyStr)
    /\ prev' = hierarchy
    /\ table' = df
    /\ export_df' = PageExport(hierarchy', current_id')

\* the upload of a table build_hierarchy raises on (it has rows and lacks
\* the columns of the relational parser): it is read again without a header
\* row and parsed as an outline
ImportOutline(df) ==
    /\ ~loaded
    /\ hierarchy' = build_hierarchy_from_outline(df)
    /\ loaded' = TRUE
    /\ current_id' = FirstRoot(build_hierarchy_from_outline(df))
    /\ fault' = "none"
    /\ last' = Op("import_outline", None, None, None, EmptyStr, EmptyStr)
    /\ prev' = hierarchy
    /\ table' = df
    /\ export_df' = PageExport(hierarchy', current_id')

\* el.get("parent") of a node: the nodes have no key "parent"
NodeGetParent(el) == None

\* has_children = any(el.get("parent") == current_id for el in hierarchy.values())
has_children(h, cur) == \E k \in SeqToSet(h.keys) : NodeGetParent(h.at[k]) = cur

\* the loop over set(current["parents"]) raises KeyError at hierarchy[pid]
ParentSectionRaises(h, cur) ==
    \E i \in 1..Len(h.at[cur].parents) : ~Has(h, h.at[cur].parents[i])

\* the page is drawn below the parents section and the siblings section
PageRunsBelowParents ==
    /\ PageRuns
    /\ ~ParentSectionRaises(hierarchy, current_id)
    /\ ~get_siblings_raises(hierarchy, current_id)

\* the assignments of the edit form
EditStore(h, cur, new_name, new_def) ==
    IF h.at[cur].type = TypeMadkhal
    THEN [h EXCEPT !.at[cur].name = new_name, !.at[cur].definition = new_def]
    ELSE [h EXCEPT !.at[cur].name = new_name]

\* the edit form, submitted
Edit(new_name, new_def) ==
    /\ PageRuns
    /\ hierarchy' = EditStore(hierarchy, current_id, new_name, new_def)
    /\ fault' = "none"
    /\ last' = Op("edit", current_id, None, None, new_name, new_def)
    /\ prev' = hierarchy
    /\ UNCHANGED <<loaded, current_id, table>>
    /\ export_df' = PageExport(hierarchy', current_id')

\* the store after the delete button's handler, parents being non-empty
DeleteStore(h, cur) ==
    LET parent_id == h.at[cur].parents[1]
        unlinked == IF Has(h, parent_id)
                    THEN [h EXCEPT !.at[parent_id].children = ListRemove(@, cur)]
                    ELSE h
    IN DictDel(unlinked, cur)

\* the delete button, pressed: parents[0] raises IndexError on a root
Delete ==
    /\ PageRuns
    /\ ~has_children(hierarchy, current_id)
    /\ IF hierarchy.at[current_id].parents = <<>>
       THEN /\ fault' = "IndexError"
            /\ UNCHANGED <<hierarchy, current_id>>
       ELSE /\ fault' = "none"
            /\ hierarchy' = DeleteStore(hierarchy, current_id)
            /\ current_id' = hierarchy.at[current_id].parents[1]
    /\ last' = Op("delete", current_id, None, None, EmptyStr, EmptyStr)
    /\ prev' = hierarchy
    /\ UNCHANGED <<loaded, table>>
    /\ export_df' = PageExport(hierarchy', current_id')

\* a parent's button, pressed: the buttons of set(parents) are drawn in an
\* order the language leaves open, up to the first absent parent
NavParent(pid) ==
    /\ PageRuns
    /\ pid \in SeqToSet(hierarchy.at[current_id].parents)
    /\ Has(hierarchy, pid)
    /\ current_id' = pid
    /\ fault' = "none"
    /\ last' = Op("nav_parent", current_id, None, None, EmptyStr, EmptyStr)
    /\ prev' = hierarchy
    /\ UNCHANGED <<hierarchy, loaded, table>>
    /\ export_df' = PageExport(hierarchy', current_id')

\* a sibling's button, pressed
NavSibling(sid) ==
    /\ PageRunsBelowParents
    /\ sid \in get_siblings_set(hierarchy, current_id)
    /\ Has(hierarchy, sid)
    /\ current_id' = sid
    /\ fault' = "none"
    /\ last' = Op("nav_sibling", current_id, None, None, EmptyStr, EmptyStr)
    /\ prev' = hierarchy
    /\ UNCHANGED <<hierarchy, loaded, table>>
    /\ export_df' = PageExport(hierarchy', current_id')

\* a child's button, pressed
NavChild(cid) ==
    /\ PageRunsBelowParents
    /\ cid \in SeqToSet(hierarchy.at[current_id].children)
    /\ Has(hierarchy, cid)
    /\ current_id' = cid
    /\ fault' = "none"
    /\ last' = Op("nav_child", current_id, None, None, EmptyStr, EmptyStr)
    /\ prev' = hierarchy
    /\ UNCHANGED <<hierarchy, loaded, table>>
    /\ export_df' = PageExport(hierarchy', current_id')

\* render_add_form(context_label, parent_id, auto_type, ...), submitted
SubmitAddForm(op, parent_id, auto_type, new_name, typed_def) ==
    LET new_id == GenerateNextId(hierarchy.keys)
        new_def == IF auto_type = TypeMadkhal THEN typed_def ELSE EmptyStr
    IN /\ hierarchy' = add_element(hierarchy, new_id, new_name, auto_type, new_def, parent_id)
       /\ fault' = "none"
       /\ last' = Op(op, current_id, new_id, parent_id, new_name, new_def)
       /\ prev' = hierarchy
    /\ UNCHANGED <<loaded, current_id, table>>
       /\ export_df' = PageExport(hierarchy', current_id')

\* the add-sibling form, drawn when parents[0] is truthy
AddSibling(new_name, typed_def) ==
    /\ PageRunsBelowParents
    /\ WithinBound(hierarchy)
    /\ hierarchy.at[current_id].parents # <<>>
    /\ Truthy(hierarchy.at[current_id].parents[1])
    /\ SubmitAddForm("add_sibling", hierarchy.at[current_id].parents[1],
                     infer_type("sibling", hierarchy.at[current_id].type),
                     new_name, typed_def)

\* the add-child form, drawn when the current node is no entry
AddChild(new_name, typed_def) ==
    /\ PageRunsBelowParents
    /\ WithinBound(hierarchy)
    /\ hierarchy.at[current_id].type # TypeMadkhal
    /\ SubmitAddForm("add_child", current_id,
                     infer_type("child", hierarchy.at[current_id].type),
                     new_name, typed_def)

\* the lines typed into the text area of the batch form
BatchLines == {<<" ">>, <<"n", ":", "d", " ">>}

\* the most lines typed
MaxLines == 2

\* names_input.split("\n"): a text has one line at least
BatchInputs == UNION {[1..n -> BatchLines] : n \in 1..MaxLines}

\* [name.strip() for name in lines if name.strip()]
RECURSIVE StrippedNames(_)
StrippedNames(lines) ==
    IF lines = <<>> THEN <<>>
    ELSE IF Strip(lines[1]) # EmptyStr
    THEN <<Strip(lines[1])>> \o StrippedNames(Tail(lines))
    ELSE StrippedNames(Tail(lines))

\* name.split(":", 1)[0]
RECURSIVE BeforeColon(_)
BeforeColon(s) ==
    IF s = <<>> \/ s[1] = ":" THEN <<>> ELSE <<s[1]>> \o BeforeColon(Tail(s))

RECURSIVE BatchStore_OneId(_, _, _, _)
BatchStore_OneId(h, names, parent_id, n) ==
    IF n = 0 THEN h
    ELSE LET done == BatchStore_OneId(h, names, parent_id, n - 1)
             new_id == GenerateNextId(h.keys)
         IN add_element(done, new_id, BeforeColon(names[n]), TypeMadkhal, names[n], parent_id)

\* the loop of the batch form over the first n names
RECURSIVE BatchStore(_, _, _, _)
BatchStore(h, names, parent_id, n) ==
    IF n = 0 THEN h
    ELSE LET done == BatchStore(h, names, parent_id, n - 1)
             new_id == GenerateNextId(done.keys)
         IN add_element(done, new_id, BeforeColon(names[n]), TypeMadkhal, names[n], parent_id)

\* the batch form is run while the k ids it generates and the size of the
\* store are within the bound
BatchWithinBound(h, k) ==
    \/ k = 0
    \/ /\ MatchNumber(GenerateNextId(h.keys)) + k - 1 <= MaxIdNumber
       /\ Len(h.keys) + k <= MaxIdNumber

\* render_batch_madkhal_form(current_id, ...), submitted: the form is drawn
\* when the current node is no entry and the type of its child is the entry
BatchAdd(lines) ==
    /\ PageRunsBelowParents
    /\ hierarchy.at[current_id].type # TypeMadkhal
    /\ infer_type("child", hierarchy.at[current_id].type) = TypeMadkhal
    /\ BatchWithinBound(hierarchy, Len(StrippedNames(lines)))
    /\ hierarchy' = BatchStore(hierarchy, StrippedNames(lines), current_id,
                               Len(StrippedNames(lines)))
    /\ fault' = "none"
    /\ last' = Op("batch_add", current_id, None, current_id, StrippedNames(lines), EmptyStr)
    /\ prev' = hierarchy
    /\ UNCHANGED <<loaded, current_id, table>>
    /\ export_df' = PageExport(hierarchy', current_id')

(***************************************************************************)
(* The tables uploaded in the session                                      *)
(***************************************************************************)

Id(prefix, n) == <<prefix, "-">> \o IntToStr(n)

\* the ids of the rows, by row
SessionIds == <<Id("a", 1), Id("a", 2), Id("a", 3)>>

\* an id no row has
DanglingId == Id("b", 7)

\* what a row holds beside its id and its parents: a topic, an entry
Topic == [name |-> <<"n", "1">>, type |-> TypeMawdoo, definition |-> <<"d", "1">>]

Entry == [name |-> <<"n", "1">>, type |-> TypeMadkhal, definition |-> <<"d", "1">>]

\* the parent columns of an uploaded table
MaxParentCols == 2

\* the parent cells of a row that names at most n parents: parent ids, then
\* missing values
ParentCellLists(ids, n) ==
    {cells \in [1..MaxParentCols -> {StrCell(i) : i \in ids} \cup {NaNCell}] :
        /\ \A i \in 1..(MaxParentCols - 1) : cells[i] = NaNCell => cells[i + 1] = NaNCell
        /\ \A i \in (n + 1)..MaxParentCols : cells[i] = NaNCell}

Row(id, payload, parents) ==
    [id |-> StrCell(id), name |-> payload.name, type |-> payload.type,
     definition |-> payload.definition, parents |-> parents]

\* every table of at most two rows, a topic with at most one parent and then
\* an entry with any parents, the parents being among the first two ids and
\* the dangling id
SmallTables ==
    LET ids == {SessionIds[1], SessionIds[2], DanglingId}
        first == {Row(SessionIds[1], Topic, c) : c \in ParentCellLists(ids, 1)}
        second == {Row(SessionIds[2], Entry, c) : c \in ParentCellLists(ids, MaxParentCols)}
    IN {Table(TRUE, <<>>)}
       \cup {Table(TRUE, <<r1>>) : r1 \in first}
       \cup {Table(TRUE, <<r1, r2>>) : r1 \in first, r2 \in second}

Pad(parents) ==
    [i \in 1..MaxParentCols |-> IF i <= Len(parents) THEN StrCell(parents[i]) ELSE NaNCell]

\* three rows: an entry under two topics, and a chain
DiamondTable ==
    Table(TRUE, <<Row(SessionIds[1], Topic, Pad(<<>>)),
                  Row(SessionIds[2], Topic, Pad(<<>>)),
                  Row(SessionIds[3], Entry, Pad(<<SessionIds[1], SessionIds[2]>>))>>)

ChainTable ==
    Table(TRUE, <<Row(SessionIds[1], Topic, Pad(<<>>)),
                  Row(SessionIds[2], Topic, Pad(<<SessionIds[1]>>)),
                  Row(SessionIds[3], Entry, Pad(<<SessionIds[2]>>))>>)

SessionTables == SmallTables \cup {DiamondTable, ChainTable}

\* an outline cell holding the text s
Text(s) == StrCell(s)

\* an outline with a node in each of the columns 0, 1, 2; the second row
\* holds a number only
TypesOutline ==
    <<<<Text(<<"A">>), Text(<<"B">>), Text(<<"C">>)>>,
      <<IntCell(1), NaNCell, NaNCell>>>>

\* an outline of five columns: text with blanks around it, a blank str, a
\* number, and text in a column beyond type_map
WideOutline ==
    <<<<Text(<<" ", "A", " ">>), Text(<<" ">>), IntCell(1), NaNCell, Text(<<"B">>)>>,
      <<NaNCell, NaNCell, IntCell(1), NaNCell, NaNCell>>>>

\* a table of numbers: no cell is text
NumbersOutline ==
    <<<<IntCell(1), IntCell(2)>>,
      <<IntCell(3), NaNCell>>>>

\* the outlines uploaded in the session; a table of no row or one row is
\* read as a header only and makes build_hierarchy return the empty store
SessionOutlines == {TypesOutline, WideOutline, NumbersOutline}

Next ==
    \/ \E root_name \in FormNames : NewProject(root_name)
    \/ ~loaded /\ \E df \in SessionTables : ImportTable(df)
    \/ \E n \in FormNames, d \in FormDefinitions : Edit(n, d)
    \/ Delete
    \/ \E pid \in SeqToSet(hierarchy.keys) : NavParent(pid)
    \/ \E sid \in SeqToSet(hierarchy.keys) : NavSibling(sid)
    \/ \E cid \in SeqToSet(hierarchy.keys) : NavChild(cid)
    \/ \E n \in FormNames, d \in FormDefinitions : AddSibling(n, d)
    \/ \E n \in FormNames, d \in FormDefinitions : AddChild(n, d)

Spec == Init /\ [][Next]_vars

(***************************************************************************)
(* The add forms, on the stores of both parsers and of a new project       *)
(***************************************************************************)

\* one row: a topic with no parent
TopicTable == Table(TRUE, <<Row(SessionIds[1], Topic, Pad(<<>>))>>)

\* the tables the forms are run on
FormTables == {TopicTable, DiamondTable, ChainTable}

NextForms ==
    \/ \E root_name \in FormNames : NewProject(root_name)
    \/ ~loaded /\ \E df \in FormTables : ImportTable(df)
    \/ ~loaded /\ \E df \in SessionOutlines : ImportOutline(df)
    \/ \E pid \in SeqToSet(hierarchy.keys) : NavParent(pid)
    \/ \E sid \in SeqToSet(hierarchy.keys) : NavSibling(sid)
    \/ \E cid \in SeqToSet(hierarchy.keys) : NavChild(cid)
    \/ \E n \in FormNames, d \in FormDefinitions : AddSibling(n, d)
    \/ \E n \in FormNames, d \in FormDefinitions : AddChild(n, d)
    \/ \E lines \in BatchInputs : BatchAdd(lines)

SpecForms == Init /\ [][NextForms]_vars

(***************************************************************************)
(* The store operations called directly, with any arguments                *)
(***************************************************************************)

\* add_element called with an id and a parent id of the caller's choice
AddNode(new_id, type_, parent_id) ==
    /\ loaded
    /\ hierarchy' = add_element(hierarchy, new_id, <<"n", "2">>, type_, <<"d", "2">>, parent_id)
    /\ fault' = "none"
    /\ last' = Op("add_node", current_id, new_id, parent_id, <<"n", "2">>, <<"d", "2">>)
    /\ prev' = hierarchy
    /\ UNCHANGED <<loaded, current_id, table>>
    /\ export_df' = PageExport(hierarchy', current_id')

\* the most nodes of a store add_element is called on
MaxNodes == 3

\* the ids add_element is called with: the first and the last id of the
\* store, the id the generator gives, and the id that rows name as a parent
\* but no row has
NodeIdArgs ==
    {GenerateNextId(hierarchy.keys), DanglingId}
        \cup {hierarchy.keys[i] : i \in {1, Len(hierarchy.keys)} \cap DOMAIN hierarchy.keys}

\* the parent ids add_element is called with: the ids of the store, an
\* absent id, None and ""
ParentIdArgs == SeqToSet(hierarchy.keys) \cup {DanglingId, None, EmptyStr}

\* a store is built, then add_element is called on it
NextCore ==
    \/ \E root_name \in FormNames : NewProject(root_name)
    \/ ~loaded /\ \E df \in SessionTables : ImportTable(df)
    \/ \E new_id \in NodeIdArgs, parent_id \in ParentIdArgs :
          /\ Len(hierarchy.keys) < MaxNodes
          /\ AddNode(new_id, TypeMadkhal, parent_id)

SpecCore == Init /\ [][NextCore]_vars

(***************************************************************************)
(* The parser and the exporter on tables of typed cells                    *)
(***************************************************************************)

IdCells == {StrCell(SessionIds[1]), StrCell(IntToStr(1)), IntCell(1)}

ParentCells == {NaNCell, StrCell(SessionIds[1]), IntCell(1), FloatCell(1)}

\* what the second row holds beside its id and its parents
EntryNoDefinition == [name |-> <<"n", "2">>, type |-> TypeMadkhal, definition |-> Missing]

TypedRow(id, payload, parents) ==
    [id |-> id, name |-> payload.name, type |-> payload.type,
     definition |-> payload.definition, parents |-> parents]

\* every table of at most two rows over the typed cells, with and without
\* the definition column, and the tables of the session
TypedTables ==
    LET cells == [1..MaxParentCols -> ParentCells]
        rows(payload) == {TypedRow(i, payload, c) : i \in IdCells, c \in cells}
    IN {Table(d, <<>>) : d \in BOOLEAN}
       \cup {Table(d, <<r1>>) : d \in BOOLEAN, r1 \in rows(Topic)}
       \cup {Table(d, <<r1, r2>>) : d \in BOOLEAN, r1 \in rows(Topic), r2 \in rows(EntryNoDefinition)}
       \cup SessionTables

\* export_to_csv applied to the hierarchy just built
ExportTable ==
    /\ loaded
    /\ last.op = "import"
    /\ export_df' = export_to_csv(hierarchy, loaded, hierarchy)
    /\ fault' = "none"
    /\ last' = Op("export", current_id, None, None, EmptyStr, EmptyStr)
    /\ prev' = hierarchy
    /\ UNCHANGED <<hierarchy, loaded, current_id, table>>

NextTable ==
    \/ ~loaded /\ \E df \in TypedTables : ImportTable(df)
    \/ ExportTable

SpecTable == Init /\ [][NextTable]_vars

(***************************************************************************)
(* The exporter called with any store, in any session                      *)
(***************************************************************************)

\* export_to_csv(build_hierarchy(df)), called once in a session that has no
\* store, the store of a new project or the store of an uploaded table;
\* table keeps the table the exported store was built from
ExportStore(df) ==
    /\ last.op # "export_store"
    /\ export_df' = export_to_csv(build_hierarchy(df), loaded, hierarchy)
    /\ fault' = "none"
    /\ last' = Op("export_store", None, None, None, EmptyStr, EmptyStr)
    /\ prev' = hierarchy
    /\ table' = df
    /\ UNCHANGED <<hierarchy, loaded, current_id>>

NextExport ==
    \/ \E root_name \in FormNames : NewProject(root_name)
    \/ ~loaded /\ \E df \in SessionTables : ImportTable(df)
    \/ \E df \in SessionTables : ExportStore(df)

SpecExport == Init /\ [][NextExport]_vars

(***************************************************************************)
(* The id generator on stores of any keys                                  *)
(***************************************************************************)

\* the characters of the key that is drawn
IdAlphabet == {"a", "-", "0", "9"}

\* the longest key drawn
MaxIdLen == 4

\* the most keys a store is grown to
MaxKeys == 5

RECURSIVE StringsOfLen(_)
StringsOfLen(n) ==
    IF n = 0 THEN {<<>>}
    ELSE {Append(s, c) : s \in StringsOfLen(n - 1), c \in IdAlphabet}

IdStrings == UNION {StringsOfLen(n) : n \in 0..MaxIdLen}

\* the ids of the documented example
ExampleIds == <<Id("a", 3), Id("b", 7), Id("a", 10)>>

\* the subsequences of a sequence
RECURSIVE SubSeqs(_)
SubSeqs(s) ==
    IF s = <<>> THEN {<<>>}
    ELSE LET rest == SubSeqs(Tail(s)) IN rest \cup {<<s[1]>> \o r : r \in rest}

RootNode == Node(<<"n", "1">>, TypeMawdoo, EmptyStr, <<>>, <<>>)

StoreOfKeys(ks) == [keys |-> ks, at |-> [k \in SeqToSet(ks) |-> RootNode]]

\* a store of roots: some of the example ids, and before or after them a
\* key of any characters
InitId ==
    /\ \E ex \in SubSeqs(ExampleIds), s \in IdStrings, front \in BOOLEAN, drawn \in BOOLEAN :
          hierarchy = StoreOfKeys(IF ~drawn \/ s \in SeqToSet(ex) THEN ex
                                  ELSE IF front THEN <<s>> \o ex ELSE Append(ex, s))
    /\ loaded = TRUE
    /\ current_id = None
    /\ fault = "none"
    /\ last = Op("none", None, None, None, EmptyStr, EmptyStr)
    /\ prev = EmptyDict
    /\ table = NoTable
    /\ export_df = NoTable

\* new_id = generate_next_id(hierarchy); add_element(hierarchy, new_id, ...)
GenerateAndAdd ==
    /\ Len(hierarchy.keys) < MaxKeys
    /\ LET new_id == GenerateNextId(hierarchy.keys) IN
          /\ hierarchy' = add_element(hierarchy, new_id, <<"n", "2">>, TypeMadkhal, <<"d", "2">>, None)
          /\ last' = Op("generate", None, new_id, None, <<"n", "2">>, <<"d", "2">>)
    /\ fault' = "none"
    /\ prev' = hierarchy
    /\ UNCHANGED <<loaded, current_id, table, export_df>>

NextId == GenerateAndAdd

SpecId == InitId /\ [][NextId]_vars

(***************************************************************************)
(* The outline parser on any table                                         *)
(***************************************************************************)

\* the cells of the tables drawn: a missing value, a text
OutlineCells == {NaNCell, Text(<<"A">>)}

\* the most rows of a table drawn
MaxOutlineRows == 2

\* the documented example: rows ["A","B","C"] and ["","B2","C2"]
ExampleOutline ==
    <<<<Text(<<"A">>), Text(<<"B">>), Text(<<"C">>)>>,
      <<Text(EmptyStr), Text(<<"B", "2">>), Text(<<"C", "2">>)>>>>

\* every table of at most MaxOutlineRows rows over the columns of type_map,
\* the example and the outlines of the session
OutlineTables ==
    UNION {[1..r -> [1..Len(type_map) -> OutlineCells]] : r \in 0..MaxOutlineRows}
        \cup {ExampleOutline} \cup SessionOutlines

NextOutline == ~loaded /\ \E df \in OutlineTables : ImportOutline(df)

SpecOutline == Init /\ [][NextOutline]_vars

(***************************************************************************)
(* The claims                                                              *)
(***************************************************************************)

Keys(h) == SeqToSet(h.keys)

Parents(h, k) == SeqToSet(h.at[k].parents)

Children(h, k) == SeqToSet(h.at[k].children)

\* the last handler was the delete button, pressed on node last.id
Deleted == last.op = "delete" /\ Has(prev, last.id)

\* C1: in every store reached by adding, editing and deleting, every node is
\* listed in the children of each of its present parents, and every id in a
\* children list is a node of the store that names that parent
C1_InverseLinks ==
    loaded =>
        /\ \A c \in Keys(hierarchy) : \A p \in Parents(hierarchy, c) :
              Has(hierarchy, p) => c \in Children(hierarchy, p)
        /\ \A p \in Keys(hierarchy) : \A c \in Children(hierarchy, p) :
              Has(hierarchy, c) /\ p \in Parents(hierarchy, c)

\* C2: deleting a node that has a child fails: the store and the focus stay
\* as they were
C2_DeleteWithChildrenRejected ==
    (Deleted /\ prev.at[last.id].children # <<>>) =>
        (hierarchy = prev /\ current_id = last.id)

\* C3: add_element with an id the store has leaves the store as it was
C3_DuplicateIdNoChange ==
    (last.op = "add_node" /\ Has(prev, last.new_id)) => hierarchy = prev

\* C3: add_element was called with a present id and a present parent
C3_Witness ==
    /\ last.op = "add_node"
    /\ Has(prev, last.new_id)
    /\ Has(prev, last.parent_id)
    /\ last.parent_id # last.new_id

\* C4: the id generate_next_id returns is no key of the store
C4_NextIdIsFresh == ~Has(hierarchy, GenerateNextId(hierarchy.keys))

\* the key has a match and is more than <letters>-<number>: characters
\* around the match, or leading zeros
NotCanonical(k) ==
    HasMatch(k) /\ k # MatchPrefix(k) \o <<"-">> \o IntToStr(MatchNumber(k))

\* C4: an id was generated for a store that has such a key beside the keys
\* of the example
C4_Witness ==
    /\ last.op = "generate"
    /\ \E k \in Keys(prev) : NotCanonical(k)
    /\ SeqToSet(ExampleIds) \subseteq Keys(prev)

\* the keys the pattern is found in
MatchingKeys(h) == {k \in Keys(h) : HasMatch(k)}

\* C5: generate_next_id returns <prefix>-<max+1>, max being the largest
\* number matched in a key and prefix the letters matched in a key that has
\* that number (the pattern is searched for in the key, and the number and
\* the prefix are those of its leftmost match); "z-1" when no key matches;
\* {"a-3","b-7","a-10"} gives "a-11"
C5_NextIdIsMaxPlusOne ==
    LET r == GenerateNextId(hierarchy.keys)
        M == MatchingKeys(hierarchy)
    IN /\ M = {} => r = FallbackId
       /\ M # {} =>
            \E k \in M :
                /\ \A j \in M : MatchNumber(j) <= MatchNumber(k)
                /\ r = MatchPrefix(k) \o <<"-">> \o IntToStr(MatchNumber(k) + 1)
       /\ hierarchy.keys = ExampleIds => r = Id("a", 11)
       /\ hierarchy.keys = <<>> => r = FallbackId

\* C5: an id was generated for the store of the example, the largest number
\* not being in the first key
C5_Witness ==
    /\ last.op = "generate"
    /\ prev.keys = ExampleIds
    /\ last.new_id = Id("a", 11)

\* C6: deleting a childless node whose first parent is present removes the
\* node, leaves its id in no place of that parent's children, moves the
\* focus to that parent and changes nothing else
C6_DeleteLeaf ==
    (/\ Deleted
     /\ prev.at[last.id].children = <<>>
     /\ prev.at[last.id].parents # <<>>
     /\ Has(prev, prev.at[last.id].parents[1])) =>
        LET p == prev.at[last.id].parents[1] IN
            /\ ~Has(hierarchy, last.id)
            /\ Keys(hierarchy) = Keys(prev) \ {last.id}
            /\ last.id \notin Children(hierarchy, p)
            /\ current_id = p
            /\ \A k \in Keys(hierarchy) \ {p} : hierarchy.at[k] = prev.at[k]
            /\ hierarchy.at[p] = [prev.at[p] EXCEPT !.children = hierarchy.at[p].children]

\* C7: deleting a childless root raises nothing, removes the node and leaves
\* no focus
C7_DeleteRoot ==
    (/\ Deleted
     /\ prev.at[last.id].children = <<>>
     /\ prev.at[last.id].parents = <<>>) =>
        /\ fault = "none"
        /\ ~Has(hierarchy, last.id)
        /\ current_id = None

\* C8: for a node whose parents are all present, every list get_siblings
\* can return holds each id once and holds exactly the ids found in the
\* children list of some parent, the node itself left out
C8_Siblings ==
    loaded =>
        \A id \in Keys(hierarchy) :
            ~get_siblings_raises(hierarchy, id) =>
                \A l \in get_siblings(hierarchy, id) :
                    /\ \A i, j \in 1..Len(l) : l[i] = l[j] => i = j
                    /\ SeqToSet(l) =
                         {c \in UNION {Children(hierarchy, p) : p \in Parents(hierarchy, id)} :
                             c # id}

\* C8: a store was built where a node has two parents that both list another
\* node
C8_Witness ==
    /\ loaded
    /\ last.op = "import"
    /\ \E id \in Keys(hierarchy) :
          /\ ~get_siblings_raises(hierarchy, id)
          /\ \E p1, p2 \in Parents(hierarchy, id), x \in Keys(hierarchy) :
                /\ p1 # p2
                /\ x # id
                /\ x \in Children(hierarchy, p1) \cap Children(hierarchy, p2)

\* C9: on the page of a node, neither the parents section nor get_siblings
\* raises, whatever ids the node's parents list holds
C9_DanglingParentsSkipped ==
    PageRuns =>
        /\ ~ParentSectionRaises(hierarchy, current_id)
        /\ ~get_siblings_raises(hierarchy, current_id)

\* the cells of a sequence that are not missing, as strings
RECURSIVE PresentStrs(_)
PresentStrs(cells) ==
    IF Len(cells) = 0 THEN <<>>
    ELSE IF cells[1].kind = "nan" THEN PresentStrs(Tail(cells))
    ELSE <<PyStr(cells[1])>> \o PresentStrs(Tail(cells))

\* the ids of the rows differ, as the strings the store keys them by
UniqueIds(df) ==
    \A i, j \in 1..Len(df.rows) : PyStr(df.rows[i].id) = PyStr(df.rows[j].id) => i = j

\* C10: the export of the store built from a table of unique ids has one row
\* per row of the table, with the same id, name and type, the same
\* definition ("" when the table has no definition column) and the same
\* parent ids in the same order, the missing cells apart
C10_RoundTrip ==
    (last.op = "export" /\ UniqueIds(table)) =>
        /\ Len(export_df.rows) = Len(table.rows)
        /\ \A i \in 1..Len(table.rows) :
              LET row == table.rows[i]
                  out == export_df.rows[i]
              IN /\ out.id = StrCell(PyStr(row.id))
                 /\ out.name = row.name
                 /\ out.type = row.type
                 /\ out.definition = IF table.has_definition THEN row.definition ELSE EmptyStr
                 /\ PresentStrs(out.parents) = PresentStrs(row.parents)

\* C10: a table of two rows was exported whose second row has a missing cell
\* before a parent id, the first row having two parents
C10_Witness ==
    /\ last.op = "export"
    /\ UniqueIds(table)
    /\ Len(table.rows) = 2
    /\ Len(PresentStrs(table.rows[1].parents)) = 2
    /\ table.rows[1].parents[1] # table.rows[1].parents[2]
    /\ table.rows[2].parents[1] = NaNCell
    /\ table.rows[2].parents[2] # NaNCell

\* the places <<row, column>> of the text cells of an outline, the columns
\* counted from 0
TextPlaces(df) ==
    UNION {{<<r, c>> : c \in {x \in 0..(Len(df[r]) - 1) : IsTextCell(df[r][x + 1])}} :
              r \in 1..Len(df)}

\* place p is read before place q
ReadBefore(p, q) == p[1] < q[1] \/ (p[1] = q[1] /\ p[2] < q[2])

\* the id of the k-th text cell read
NthId(k) == <<"N">> \o IntToStr(k)

\* the id of the node emitted for the text cell at place p
IdAt(df, p) == NthId(Cardinality({q \in TextPlaces(df) : ReadBefore(q, p)}) + 1)

\* C11: the outline parser gives the node of a text cell at column c one
\* parent, the node emitted last (in this row or a row before) at the
\* largest column below c that any node was emitted at so far, and no parent
\* when there is no such column; rows ["A","B","C"], ["","B2","C2"] give B2
\* the parent A
C11_OutlineParentRule ==
    last.op = "import_outline" =>
        /\ \A p \in TextPlaces(table) :
              LET left == {q \in TextPlaces(table) : ReadBefore(q, p) /\ q[2] < p[2]}
                  node == IdAt(table, p)
              IN /\ Has(hierarchy, node)
                 /\ IF left = {}
                    THEN hierarchy.at[node].parents = <<>>
                    ELSE LET nearest == {q \in left : \A x \in left : x[2] <= q[2]}
                             latest == CHOOSE q \in nearest :
                                           \A x \in nearest : x = q \/ ReadBefore(x, q)
                         IN hierarchy.at[node].parents = <<IdAt(table, latest)>>
        /\ table = ExampleOutline =>
              \A k \in Keys(hierarchy) :
                  hierarchy.at[k].name = <<"B", "2">> =>
                      /\ Len(hierarchy.at[k].parents) = 1
                      /\ hierarchy.at[hierarchy.at[k].parents[1]].name = <<"A">>

\* C11: an outline was parsed where the parent of a node was emitted in a
\* row before, two columns or more to the left, and a node was emitted to
\* the right of the parent in between
C11_Witness ==
    /\ last.op = "import_outline"
    /\ \E p, q, x \in TextPlaces(table) :
          /\ q[1] < p[1]
          /\ q[2] + 1 < p[2]
          /\ ReadBefore(q, x) /\ ReadBefore(x, p) /\ x[2] > p[2]
          /\ hierarchy.at[IdAt(table, p)].parents = <<IdAt(table, q)>>


\* C12: add_element with an id the store does not have inserts the node
\* last, with parents [parent_id] when parent_id is given and not empty and
\* [] otherwise; a parent present before the call gets the id at the end of
\* its children; when parent_id names no node present before the call, no
\* children list holds the new id; the nodes present before are otherwise
\* unchanged
C12_AddNodeFrame ==
    (last.op = "add_node" /\ ~Has(prev, last.new_id)) =>
        /\ hierarchy.keys = Append(prev.keys, last.new_id)
        /\ hierarchy.at[last.new_id].parents =
              IF Truthy(last.parent_id) THEN <<last.parent_id>> ELSE <<>>
        /\ \A k \in Keys(prev) :
              hierarchy.at[k] =
                  IF k = last.parent_id
                  THEN [prev.at[k] EXCEPT !.children = Append(@, last.new_id)]
                  ELSE prev.at[k]
        /\ ~Has(prev, last.parent_id) =>
              \A k \in Keys(hierarchy) : last.new_id \notin Children(hierarchy, k)


\* the last handler was the edit form, submitted on node last.id
Edited == last.op = "edit" /\ Has(prev, last.id)

\* C13: the edit form sets the name of the node to the new name; it sets the
\* definition to the new definition when the node is an entry; the definition
\* of a node of another type is as it was and is empty after the edit; the
\* type, parents and children of the node and all other nodes are unchanged
C13_EditFrame ==
    Edited =>
        /\ hierarchy.keys = prev.keys
        /\ hierarchy.at[last.id].name = last.name
        /\ hierarchy.at[last.id].type = prev.at[last.id].type
        /\ hierarchy.at[last.id].parents = prev.at[last.id].parents
        /\ hierarchy.at[last.id].children = prev.at[last.id].children
        /\ IF prev.at[last.id].type = TypeMadkhal
           THEN hierarchy.at[last.id].definition = last.definition
           ELSE /\ hierarchy.at[last.id].definition = prev.at[last.id].definition
                /\ hierarchy.at[last.id].definition = EmptyStr
        /\ \A k \in Keys(prev) \ {last.id} : hierarchy.at[k] = prev.at[k]


\* the largest number of parents of a node of h, 0 for a store of no node
MostParents(h) ==
    IF Keys(h) = {} THEN 0
    ELSE CHOOSE m \in {Len(h.at[k].parents) : k \in Keys(h)} :
             \A k \in Keys(h) : Len(h.at[k].parents) <= m

\* C14: the export of a store has one row per node of that store, in order,
\* and in every row as many parent cells as the longest parents list of that
\* store; a row holds the node's parents in their order in its first cells
\* and empty cells after them, so that no parent id is dropped
C14_ExportColumns ==
    last.op = "export_store" =>
        LET h == build_hierarchy(table) IN
            /\ Len(export_df.rows) = Len(h.keys)
            /\ \A n \in 1..Len(h.keys) :
                  LET out == export_df.rows[n]
                      parents == h.at[h.keys[n]].parents
                  IN /\ out.id = StrCell(h.keys[n])
                     /\ Len(out.parents) = MostParents(h)
                     /\ \A i \in 1..Len(out.parents) :
                           out.parents[i] =
                               IF i <= Len(parents) THEN StrCell(parents[i]) ELSE NaNCell
                     /\ PresentStrs(out.parents) = parents


\* the row of df that the node of key k is built from: the last row whose id
\* reads as k
RowOf(df, k) ==
    CHOOSE i \in 1..Len(df.rows) :
        /\ PyStr(df.rows[i].id) = k
        /\ \A j \in (i + 1)..Len(df.rows) : PyStr(df.rows[j].id) # k

\* C15: in the store the relational parser builds from any table, every node
\* is listed in the children of each of its present parents, every id in a
\* children list is a node that names that parent, and the parents of a node
\* are the cells of the parent columns of its row that are not missing, as
\* strings, in column order
C15_ParserInverseLinks ==
    last.op = "import" =>
        /\ \A c \in Keys(hierarchy) : \A p \in Parents(hierarchy, c) :
              Has(hierarchy, p) => c \in Children(hierarchy, p)
        /\ \A p \in Keys(hierarchy) : \A c \in Children(hierarchy, p) :
              Has(hierarchy, c) /\ p \in Parents(hierarchy, c)
        /\ Keys(hierarchy) = {PyStr(table.rows[i].id) : i \in 1..Len(table.rows)}
        /\ \A k \in Keys(hierarchy) :
              hierarchy.at[k].parents = PresentStrs(table.rows[RowOf(table, k)].parents)

\* C15: a table was parsed that has two rows of one id with different
\* parent cells, the second naming a present parent and a parent no row has
C15_Witness ==
    /\ last.op = "import"
    /\ Len(table.rows) = 2
    /\ PyStr(table.rows[1].id) = PyStr(table.rows[2].id)
    /\ table.rows[1].parents # table.rows[2].parents
    /\ \E k \in Keys(hierarchy) :
          /\ \E p \in Parents(hierarchy, k) : Has(hierarchy, p)
          /\ \E p \in Parents(hierarchy, k) : ~Has(hierarchy, p)


\* C16: whenever the session holds a store, the focus is a key of it
C16_FocusValid == loaded => Has(hierarchy, current_id)


\* the number of the id N<k>
CounterOf(id) == StrToInt(Tail(id))

\* C17: the store the outline parser builds is a forest: the k-th text cell
\* read gets the id N<k> and the node of that id holds its text, the ids
\* differ, a node has one parent at most, the parent is a node of the store
\* and has a smaller number, and the children of a node are the nodes that
\* name it as parent, in increasing order of number
C17_OutlineForest ==
    last.op = "import_outline" =>
        LET n == Cardinality(TextPlaces(table)) IN
            /\ hierarchy.keys = [k \in 1..n |-> NthId(k)]
            /\ \A i, j \in 1..n : NthId(i) = NthId(j) => i = j
            /\ \A p \in TextPlaces(table) :
                  hierarchy.at[IdAt(table, p)].name = Strip(table[p[1]][p[2] + 1].s)
            /\ \A c \in Keys(hierarchy) :
                  /\ Len(hierarchy.at[c].parents) <= 1
                  /\ \A p \in Parents(hierarchy, c) :
                        /\ Has(hierarchy, p)
                        /\ CounterOf(p) < CounterOf(c)
                        /\ c \in Children(hierarchy, p)
            /\ \A p \in Keys(hierarchy) :
                  LET children == hierarchy.at[p].children IN
                      /\ \A i \in 1..Len(children) :
                            /\ Has(hierarchy, children[i])
                            /\ hierarchy.at[children[i]].parents = <<p>>
                      /\ \A i, j \in 1..Len(children) :
                            i < j => CounterOf(children[i]) < CounterOf(children[j])

\* C17: an outline of two rows was parsed where a node has a child in each
\* row, the two not being read one after the other
C17_Witness ==
    /\ last.op = "import_outline"
    /\ \E p, a, b \in TextPlaces(table) :
          /\ a[1] = p[1]
          /\ b[1] > p[1]
          /\ hierarchy.at[IdAt(table, p)].children = <<IdAt(table, a), IdAt(table, b)>>
          /\ CounterOf(IdAt(table, b)) > CounterOf(IdAt(table, a)) + 1


\* the keys the last handler added, in the order it added them
AddedKeys == SubSeq(hierarchy.keys, Len(prev.keys) + 1, Len(hierarchy.keys))

\* C18: the batch form submitted with k names that are not blank adds k
\* nodes: the store gains k keys that differ from each other and from the
\* keys it had, each an entry under the parent with the name typed, the
\* parent's children grow by these k ids in the order typed, and no other
\* node the store had is changed
C18_BatchAdd ==
    (last.op = "batch_add" /\ Has(prev, last.id)) =>
        LET k == Len(last.name) IN
            /\ Len(hierarchy.keys) = Len(prev.keys) + k
            /\ SubSeq(hierarchy.keys, 1, Len(prev.keys)) = prev.keys
            /\ \A i \in 1..k :
                  /\ ~Has(prev, AddedKeys[i])
                  /\ \A j \in 1..k : AddedKeys[i] = AddedKeys[j] => i = j
                  /\ hierarchy.at[AddedKeys[i]] =
                        Node(BeforeColon(last.name[i]), TypeMadkhal, last.name[i],
                             <<last.id>>, <<>>)
            /\ hierarchy.at[last.id] =
                  [prev.at[last.id] EXCEPT !.children = @ \o AddedKeys]
            /\ \A x \in Keys(prev) \ {last.id} : hierarchy.at[x] = prev.at[x]

\* C18: the batch form was submitted with two names under a node that had a
\* child
C18_Witness ==
    /\ last.op = "batch_add"
    /\ Len(last.name) = 2
    /\ prev.at[last.id].children # <<>>
    /\ Len(hierarchy.at[last.id].children) = Len(prev.at[last.id].children) + 2


\* C19: a child added under a node whose type is the label type_map gives
\* column 0, 1 or 2 gets the label type_map gives the next column, and a
\* sibling added gets the type of the current node
C19_ChildTypeFollowsOutline ==
    /\ (last.op = "add_child" /\ Has(hierarchy, last.new_id)) =>
          \A c \in 1..(Len(type_map) - 1) :
              prev.at[last.id].type = type_map[c] =>
                  hierarchy.at[last.new_id].type = type_map[c + 1]
    /\ (last.op = "add_sibling" /\ Has(hierarchy, last.new_id)) =>
          hierarchy.at[last.new_id].type = prev.at[last.id].type

=============================================================================
